---- MODULE Spec2Model ----
(***************************************************************************)
(* Model of sitreps_client: the retry executor wait_for                    *)
(* (utils/helpers.py), the Codecov coverage pipeline (code_coverage.py)    *)
(* and the unit-test counting of CI logs (unit_tests.py).                  *)
(***************************************************************************)
EXTENDS Integers, Sequences, FiniteSets, TLC

(***************************************************************************)
(* Bounds of the model.                                                    *)
(***************************************************************************)
\* longest time, in clock ticks, one invocation of func may take
MaxOpTime == 2
\* largest caller-supplied delay of a direct wait_for call
MaxDelay == 2
\* largest caller-supplied num_sec of a direct wait_for call
MaxTimeout == 4
\* time.sleep may oversleep by at most this many ticks
MaxOversleep == 1

(***************************************************************************)
(* Python values.                                                          *)
(***************************************************************************)
\* the None object
None == [py |-> "None"]
\* a local variable that was never assigned
Unbound == [py |-> "unbound"]

\* the exceptions func may raise (all are subclasses of Exception)
Errors == {[exc |-> "ConnectionError"], [exc |-> "Timeout"]}

\* what func may return: a requests.Response, whose truth value is its
\* `ok` flag; `unknown` tells whether the body holds ">unknown</text>"
Responses == [ok : BOOLEAN, unknown : BOOLEAN]

\* bool(response) of `if response or ignore_falsy` / `not response`
Truthy(v) == IF "ok" \in DOMAIN v THEN v.ok ELSE FALSE

VARIABLES
  now,          \* time.time()
  entry,        \* which entry point this run exercises
  delay,        \* wait_for argument
  num_sec,      \* wait_for argument
  ignore_falsy, \* wait_for argument
  end_time,     \* wait_for local
  tries,        \* wait_for local
  response,     \* wait_for local
  err,          \* wait_for local
  wpc,          \* position inside wait_for
  wf_return,    \* the tuple wait_for returned, << >> before it returns
  wf_raised,    \* the exception that left wait_for, "none" if none did
  hist,         \* every invocation of func: start, stop, outcome
  cpc,          \* position inside get_code_coverage
  fetched,      \* `response, err` of the caller, unpacked from wait_for
  available,    \* what CodecovCoverage.is_available returned
  response_json,\* what response.json() gave get_coverage
  cov_return,   \* what get_code_coverage returned
  cov_raised,   \* the exception that left get_code_coverage, "none" if none
  ci_log,       \* _get_tests_count argument: the raw lines of the CI log
  test_tool,    \* _get_tests_count argument: the names between the commas
  tools,        \* _get_tests_count local
  lines,        \* escape_ansi(ci_log).splitlines()
  idx,          \* the line the for loop of line 99 is at
  tests_count,  \* _get_tests_count local
  handled,      \* for each line scanned, the tools whose rule ran on it
  kpc,          \* position inside _get_tests_count
  ut_config,    \* get_unit_tests arguments: the test_tool of each provider
  unit_tests,   \* get_unit_tests local: the dict it returns
  ut_pos,       \* the item the for loop of line 399 is at
  ut_env,       \* what each provider answered
  ut_raised,    \* the exception that left get_unit_tests, "none" if none
  upc,          \* position inside get_unit_tests
  ci_pattern,   \* CICoverage: self.pattern
  ci_download,  \* what self.ci_downloader.get_text(self.url) does
  pattern,      \* get_regex_cov argument
  string,       \* get_regex_cov argument
  match,        \* get_regex_cov local
  rx_return,    \* what CICoverage.get_coverage returned
  rx_raised,    \* the exception that left CICoverage.get_coverage, or "none"
  rpc           \* position inside CICoverage.get_coverage

\* the arguments of wait_for
wf_args == <<delay, num_sec, ignore_falsy>>

\* the frame of wait_for
wf_frame == <<end_time, tries, response, err, wf_return, wf_raised, hist>>

\* the state of CICoverage.get_coverage and get_regex_cov
rx_vars == <<ci_pattern, ci_download, pattern, string, match, rx_return,
             rx_raised, rpc>>

\* the state of get_code_coverage and of CICoverage.get_coverage
cov_vars == <<cpc, fetched, available, response_json, cov_return,
              cov_raised, rx_vars>>

\* the variables of helpers.py and code_coverage.py
wf_vars == <<now, entry, wf_args, wpc, wf_frame, cov_vars>>

\* the state of _get_tests_count
cnt_vars == <<ci_log, test_tool, tools, lines, idx, tests_count, handled,
              kpc>>

\* the variables of unit_tests.py
\* the state of get_unit_tests
ut_vars == <<ut_config, unit_tests, ut_pos, ut_env, ut_raised, upc>>

unit_test_vars == <<cnt_vars, ut_vars>>

vars == <<wf_vars, unit_test_vars>>

\* wait_for is entered: lines 17-19
\* (the arguments were bound by the caller)
WaitForEnter ==
  /\ wpc = "enter"
  /\ end_time' = now + num_sec
  /\ tries' = 0
  /\ wpc' = "while"
  /\ UNCHANGED <<now, entry, wf_args, response, err, wf_return, wf_raised,
                 hist, cov_vars,
                 unit_test_vars>>

\* LoopBody with `err = None` of line 23 left out
LoopBodyKeepsErr ==
  /\ wpc = "while"
  /\ now < end_time
  /\ response' = None
  /\ tries' = tries + 1
  /\ wpc' = "call"
  /\ UNCHANGED <<now, entry, wf_args, end_time, err, wf_return, wf_raised,
                 hist, cov_vars,
                 unit_test_vars>>

\* the loop test holds: lines 21-24
LoopBody ==
  /\ wpc = "while"
  /\ now < end_time
  /\ response' = None
  /\ err' = None
  /\ tries' = tries + 1
  /\ wpc' = "call"
  /\ UNCHANGED <<now, entry, wf_args, end_time, wf_return, wf_raised, hist,
                 cov_vars,
                 unit_test_vars>>

\* the loop test fails and control reaches the final return: lines 21, 39.
\* Reading a local that no iteration assigned raises UnboundLocalError.
LoopExit ==
  /\ wpc = "while"
  /\ ~(now < end_time)
  /\ wpc' = "done"
  /\ IF response = Unbound \/ err = Unbound
       THEN /\ wf_raised' = "UnboundLocalError"
            /\ wf_return' = wf_return
       ELSE /\ wf_return' = <<response, err, tries>>
            /\ wf_raised' = wf_raised
  /\ UNCHANGED <<now, entry, wf_args, end_time, tries, response, err, hist,
                 cov_vars,
                 unit_test_vars>>

\* where control goes after func raised: `continue`, back to the loop test
AfterRaise == "while"

\* func() raises: lines 26-32
InvokeRaises ==
  /\ wpc = "call"
  /\ \E d \in 1..MaxOpTime, e \in Errors :
       /\ now' = now + d
       /\ err' = e
       /\ hist' = Append(hist, [start |-> now, stop |-> now + d,
                                kind |-> "raise", val |-> e])
  /\ wpc' = AfterRaise
  /\ UNCHANGED <<entry, wf_args, end_time, tries, response, wf_return,
                 wf_raised, cov_vars,
                 unit_test_vars>>

\* what func may return in this run: the API fetch of get_coverage has no
\* badge text, so its responses differ in `ok` alone
FuncReturns ==
  IF cpc = "fetching" THEN {r \in Responses : ~r.unknown} ELSE Responses

\* Accepts with `or ignore_falsy` left out
AcceptsTruthyOnly(v, ign) == Truthy(v)

\* the test of line 34
Accepts(v, ign) == Truthy(v) \/ ign

\* func() returns: lines 26-27, 34-35
InvokeReturns ==
  /\ wpc = "call"
  /\ \E d \in 1..MaxOpTime, v \in FuncReturns :
       /\ now' = now + d
       /\ response' = v
       /\ hist' = Append(hist, [start |-> now, stop |-> now + d,
                                kind |-> "return", val |-> v])
       /\ IF Accepts(v, ignore_falsy)
            THEN /\ wf_return' = <<v, err, tries>>
                 /\ wpc' = "done"
            ELSE /\ wf_return' = wf_return
                 /\ wpc' = "sleep"
  /\ UNCHANGED <<entry, wf_args, end_time, tries, err, wf_raised, cov_vars,
                 unit_test_vars>>

\* time.sleep(delay): line 37
Sleep ==
  /\ wpc = "sleep"
  /\ \E over \in 0..MaxOversleep : now' = now + delay + over
  /\ wpc' = "while"
  /\ UNCHANGED <<entry, wf_args, wf_frame, cov_vars,
                 unit_test_vars>>

(***************************************************************************)
(* code_coverage.py: CodecovCoverage and get_code_coverage.                *)
(***************************************************************************)
\* is_available: delay=1 (line 37)
ProbeDelay == 1
\* is_available: num_sec=3 (line 38)
ProbeNumSec == 3
\* get_coverage: delay=2 (line 53)
CoverageDelay == 2
\* get_coverage: num_sec=7 (line 54)
CoverageNumSec == 7

\* a fresh frame of wait_for, its locals not yet assigned
NewFrame ==
  /\ end_time' = 0
  /\ tries' = 0
  /\ response' = Unbound
  /\ err' = Unbound
  /\ wf_return' = <<>>
  /\ wf_raised' = "none"
  /\ hist' = <<>>

\* the empty dict {}
EmptyDict == [k \in {} |-> 0]

\* dict.get(key, default)
Get(d, key, default) == IF key \in DOMAIN d THEN d[key] ELSE default

\* bool() of a dict or a list: it is not empty
NonEmpty(d) == DOMAIN d # {}

\* the characters of the coverage strings
Digits == {"0", "1", "2", "3", "4", "5", "6", "7", "8", "9"}

\* int() of one decimal digit
DigitVal(ch) ==
  CASE ch = "0" -> 0 [] ch = "1" -> 1 [] ch = "2" -> 2 [] ch = "3" -> 3
    [] ch = "4" -> 4 [] ch = "5" -> 5 [] ch = "6" -> 6 [] ch = "7" -> 7
    [] ch = "8" -> 8 [] ch = "9" -> 9

\* the number a string of digits spells
RECURSIVE DigitsVal(_)
DigitsVal(ds) ==
  IF ds = <<>> THEN 0
  ELSE 10 * DigitsVal(SubSeq(ds, 1, Len(ds) - 1)) + DigitVal(ds[Len(ds)])

\* 10 ^ n
RECURSIVE Pow10(_)
Pow10(n) == IF n = 0 THEN 1 ELSE 10 * Pow10(n - 1)

\* the value mant / 10^scale with no trailing zero in the fraction
RECURSIVE Normal(_, _)
Normal(mant, scale) ==
  IF scale > 0 /\ mant % 10 = 0 THEN Normal(mant \div 10, scale - 1)
  ELSE [mant |-> mant, scale |-> scale]

\* a str object, of the characters chars
PyStr(chars) == [str |-> chars]

\* float(s) of a str s, on the decimal notation
\* [sign] digits [. digits]: [ok |-> TRUE, val |-> the float] when s is a
\* number, [ok |-> FALSE] when float raises ValueError
PyFloat(pystr) ==
  LET s == pystr.str
      signed == s # <<>> /\ s[1] \in {"+", "-"}
      body == IF signed THEN SubSeq(s, 2, Len(s)) ELSE s
      dots == {i \in 1..Len(body) : body[i] = "."}
      dot == IF dots = {} THEN Len(body) + 1 ELSE CHOOSE i \in dots : TRUE
      ip == SubSeq(body, 1, dot - 1)
      fp == SubSeq(body, dot + 1, Len(body))
      wellformed ==
        /\ Cardinality(dots) <= 1
        /\ \A i \in 1..Len(ip) : ip[i] \in Digits
        /\ \A i \in 1..Len(fp) : fp[i] \in Digits
        /\ Len(ip) + Len(fp) > 0
      mant == DigitsVal(ip) * Pow10(Len(fp)) + DigitsVal(fp)
      sgn == IF signed /\ s[1] = "-" THEN -1 ELSE 1
  IN IF wellformed THEN [ok |-> TRUE, val |-> Normal(sgn * mant, Len(fp))]
     ELSE [ok |-> FALSE]

\* the coverage strings the Codecov API may carry
CovStrings ==
  { PyStr(<<"9", "2", ".", "5">>), PyStr(<<"8", "7">>),
    PyStr(<<"1", "0", "0", ".", "0">>), PyStr(<<"a", "b", "c">>),
    PyStr(<<"9", "2", ".", "5", "%">>), PyStr(<<>>) }

\* the values of a "totals" key
TotalsDicts ==
  {EmptyDict, [n |-> PyStr(<<"1", "0">>)]} \cup {[c |-> s] : s \in CovStrings}

\* a commit object: with or without "totals"
CommitDicts == {EmptyDict} \cup {[totals |-> t] : t \in TotalsDicts}

\* the JSON bodies of the branch API
JsonBodies ==
  LET singular == {EmptyDict} \cup {[commit |-> c] : c \in CommitDicts}
      plural == {EmptyDict, [commits |-> <<>>]}
                  \cup {[commits |-> <<c>>] : c \in CommitDicts}
  IN {a @@ b : a \in singular, b \in plural}

\* which branch of lines 67-72 reads the string: the test of line 67
SingularTotals(json) ==
  NonEmpty(Get(Get(json, "commit", EmptyDict), "totals", EmptyDict))

\* coverage_ratio_str of lines 67-72
CoverageRatioStr(json) ==
  IF SingularTotals(json)
    THEN Get(Get(Get(json, "commit", EmptyDict), "totals", EmptyDict),
             "c", None)
  ELSE IF NonEmpty(Get(json, "commits", <<>>))
    THEN Get(Get(json.commits[1], "totals", EmptyDict), "c", None)
  ELSE None

\* lines 73-76: the conversion of coverage_ratio_str; `value` is what is
\* returned, `raised` the exception of float(), which nothing catches
CoverageRatio(str) ==
  IF str = None THEN [raised |-> "none", value |-> None]
  ELSE IF PyFloat(str).ok
    THEN [raised |-> "none", value |-> PyFloat(str).val]
  ELSE [raised |-> "ValueError", value |-> Unbound]

\* get_code_coverage calls code_cov.is_available, which calls wait_for:
\* lines 142-144, 33-40
IsAvailableCall ==
  /\ cpc = "start"
  /\ delay' = ProbeDelay
  /\ num_sec' = ProbeNumSec
  /\ ignore_falsy' = TRUE
  /\ NewFrame
  /\ wpc' = "enter"
  /\ cpc' = "probing"
  /\ UNCHANGED <<now, entry, fetched, available, response_json,
                 cov_return, cov_raised>>
  /\ UNCHANGED <<rx_vars, unit_test_vars>>

\* IsAvailable with `or not response` of line 41 left out
IsAvailableErrOnly(resp, e) == IF e # None THEN FALSE ELSE ~resp.unknown

\* the value of is_available once wait_for returned <<resp, e, tries>>:
\* lines 41-45
IsAvailable(resp, e) ==
  IF e # None \/ ~Truthy(resp) THEN FALSE ELSE ~resp.unknown

\* is_available returns and get_code_coverage tests it: lines 33, 41-45,
\* 144-146. The frame of wait_for is gone.
IsAvailableReturn ==
  /\ cpc = "probing"
  /\ wpc = "done"
  /\ IF wf_raised # "none"
       THEN /\ cov_raised' = wf_raised
            /\ cpc' = "done"
            /\ UNCHANGED <<fetched, available, cov_return>>
       ELSE /\ fetched' = <<wf_return[1], wf_return[2]>>
            /\ available' = IsAvailable(wf_return[1], wf_return[2])
            /\ cov_raised' = cov_raised
            /\ IF available'
                 THEN cpc' = "available" /\ cov_return' = cov_return
                 ELSE cpc' = "done" /\ cov_return' = None
  /\ wpc' = "idle"
  /\ NewFrame
  /\ UNCHANGED <<now, entry, wf_args, response_json>>
  /\ UNCHANGED <<rx_vars, unit_test_vars>>

\* get_coverage calls wait_for: lines 49-55
GetCoverageCall ==
  /\ cpc = "available"
  /\ delay' = CoverageDelay
  /\ num_sec' = CoverageNumSec
  /\ ignore_falsy' = FALSE
  /\ NewFrame
  /\ wpc' = "enter"
  /\ cpc' = "fetching"
  /\ UNCHANGED <<now, entry, fetched, available, response_json,
                 cov_return, cov_raised>>
  /\ UNCHANGED <<rx_vars, unit_test_vars>>

\* FetchFailed with `and` in the place of `or` in line 61
FetchFailedAnd(resp) == ~Truthy(resp) /\ resp.ok

\* the test of line 61, on a response that is not None
FetchFailed(resp) == ~(Truthy(resp) \/ resp.ok)

\* get_coverage after wait_for returned: lines 49, 56-76.
\* The frame of wait_for is gone.
GetCoverageReturn ==
  /\ cpc = "fetching"
  /\ wpc = "done"
  /\ wpc' = "idle"
  /\ cpc' = "done"
  /\ NewFrame
  /\ IF wf_raised # "none"
       THEN /\ cov_raised' = wf_raised
            /\ UNCHANGED <<fetched, cov_return, response_json>>
       ELSE /\ fetched' = <<wf_return[1], wf_return[2]>>
            /\ IF wf_return[2] # None
                 THEN /\ cov_raised' = "CodeCoverageError"
                      /\ UNCHANGED <<cov_return, response_json>>
               ELSE IF wf_return[1] = None
                 THEN /\ cov_raised' = "AttributeError"
                      /\ UNCHANGED <<cov_return, response_json>>
               ELSE IF FetchFailed(wf_return[1])
                 THEN /\ cov_raised' = "CodeCoverageError"
                      /\ UNCHANGED <<cov_return, response_json>>
               ELSE \E json \in JsonBodies :
                      /\ response_json' = json
                      /\ cov_raised' =
                           CoverageRatio(CoverageRatioStr(json)).raised
                      /\ cov_return' =
                           CoverageRatio(CoverageRatioStr(json)).value
  /\ UNCHANGED <<now, entry, wf_args, available>>
  /\ UNCHANGED <<rx_vars, unit_test_vars>>

\* a direct call wait_for(func, delay, num_sec, ignore_falsy), or a call
\* get_code_coverage(repo_slug, branch)
Init ==
  /\ now = 0
  /\ \/ /\ entry = "wait_for"
        /\ delay \in 1..MaxDelay
        /\ num_sec \in (-1)..MaxTimeout
        /\ ignore_falsy \in BOOLEAN
        /\ wpc = "enter"
        /\ cpc = "none"
     \/ /\ entry = "get_code_coverage"
        /\ delay = 0
        /\ num_sec = 0
        /\ ignore_falsy = FALSE
        /\ wpc = "idle"
        /\ cpc = "start"
  /\ end_time = 0
  /\ tries = 0
  /\ response = Unbound
  /\ err = Unbound
  /\ wf_return = <<>>
  /\ wf_raised = "none"
  /\ hist = <<>>
  /\ fetched = <<>>
  /\ available = FALSE
  /\ response_json = EmptyDict
  /\ cov_return = Unbound
  /\ cov_raised = "none"
  /\ ci_log = <<>>
  /\ test_tool = None
  /\ tools = {}
  /\ lines = <<>>
  /\ idx = 0
  /\ tests_count = 0
  /\ handled = <<>>
  /\ kpc = "idle"
  /\ ut_config = EmptyDict
  /\ unit_tests = EmptyDict
  /\ ut_pos = 0
  /\ ut_env = EmptyDict
  /\ ut_raised = "none"
  /\ upc = "idle"
  /\ ci_pattern = None
  /\ ci_download = None
  /\ pattern = Unbound
  /\ string = Unbound
  /\ match = Unbound
  /\ rx_return = Unbound
  /\ rx_raised = "none"
  /\ rpc = "idle"

Next ==
  \/ WaitForEnter
  \/ LoopBody
  \/ LoopExit
  \/ InvokeRaises
  \/ InvokeReturns
  \/ Sleep
  \/ IsAvailableCall
  \/ IsAvailableReturn
  \/ GetCoverageCall
  \/ GetCoverageReturn

Spec == Init /\ [][Next]_vars

(***************************************************************************)
(* unit_tests.py: BaseUnitTests._get_testing_tools and _get_tests_count.   *)
(* A line is the sequence of its characters.                               *)
(***************************************************************************)
\* longest CI log, in lines
MaxLines == 3

\* the escape character \x1b
ESC == "ESC"

\* the letters that end an escape sequence
Letters ==
  {"a", "b", "c", "d", "e", "f", "g", "h", "i", "j", "k", "l", "m", "n",
   "o", "p", "q", "r", "s", "t", "u", "v", "w", "x", "y", "z", "A", "B",
   "C", "D", "E", "F", "G", "H", "I", "J", "K", "L", "M", "N", "O", "P",
   "Q", "R", "S", "T", "U", "V", "W", "X", "Y", "Z"}

\* the least element of a set of integers
Least(S) == CHOOSE i \in S : \A j \in S : i <= j

\* the greatest element of a set of integers
Greatest(S) == CHOOSE i \in S : \A j \in S : i >= j

\* escape_ansi on one line: every sequence ESC [ ... letter is removed,
\* everything else is kept
RECURSIVE EscapeAnsi(_)
EscapeAnsi(s) ==
  IF s = <<>> THEN <<>>
  ELSE LET ends == {j \in 3..Len(s) : s[j] \in Letters}
       IN IF s[1] = ESC /\ Len(s) >= 2 /\ s[2] = "[" /\ ends # {}
            THEN EscapeAnsi(SubSeq(s, Least(ends) + 1, Len(s)))
            ELSE <<s[1]>> \o EscapeAnsi(Tail(s))

\* escape_ansi(ci_log).splitlines(): no escape sequence holds a line break,
\* so the lines are the stripped lines of the log
CleanLines(log) == [i \in 1..Len(log) |-> EscapeAnsi(log[i])]

\* s holds pat at position i
StartsAt(s, i, pat) ==
  /\ i >= 1
  /\ i + Len(pat) - 1 <= Len(s)
  /\ SubSeq(s, i, i + Len(pat) - 1) = pat

\* `sub in s` of Python
Contains(s, sub) == \E i \in 1..(Len(s) + 1) : StartsAt(s, i, sub)

\* the end of the digits that start at position i (i - 1 if there is none)
RECURSIVE RunEnd(_, _)
RunEnd(s, i) ==
  IF i <= Len(s) /\ s[i] \in Digits THEN RunEnd(s, i + 1) ELSE i - 1

\* the pattern  pre([0-9]+)suf  matches s at position i
NumberAt(pre, suf, s, i) ==
  /\ StartsAt(s, i, pre)
  /\ RunEnd(s, i + Len(pre)) >= i + Len(pre)
  /\ StartsAt(s, RunEnd(s, i + Len(pre)) + 1, suf)

\* re.search found nothing: None
NoMatch == [match |-> FALSE]

\* re.search("pre([0-9]+)suf", s): the leftmost match and its group(1)
Search(pre, suf, s) ==
  LET starts == {i \in 1..Len(s) : NumberAt(pre, suf, s, i)}
  IN IF starts = {} THEN NoMatch
     ELSE LET a == Least(starts) + Len(pre)
          IN [match |-> TRUE, group1 |-> SubSeq(s, a, RunEnd(s, a))]

\* the substrings and pattern pieces of unit_tests.py, as characters
\* "https://codecov.io/upload"
S_codecov_upload ==
  <<"h", "t", "t", "p", "s", ":", "/", "/", "c", "o", "d", "e", "c", "o",
    "v", ".", "i", "o", "/", "u", "p", "l", "o", "a", "d">>

\* "bonfire deploy-iqe-cji"
S_bonfire_deploy ==
  <<"b", "o", "n", "f", "i", "r", "e", " ", "d", "e", "p", "l", "o", "y",
    "-", "i", "q", "e", "-", "c", "j", "i">>

\* "=== RUN "
S_go_run ==
  <<"=", "=", "=", " ", "R", "U", "N", " ">>

\* "collected "
S_collected ==
  <<"c", "o", "l", "l", "e", "c", "t", "e", "d", " ">>

\* " items"
S_items ==
  <<" ", "i", "t", "e", "m", "s">>

\* "Ran "
S_Ran ==
  <<"R", "a", "n", " ">>

\* " tests in "
S_tests_in ==
  <<" ", "t", "e", "s", "t", "s", " ", "i", "n", " ">>

\* " tests in"
S_tests_in_re ==
  <<" ", "t", "e", "s", "t", "s", " ", "i", "n">>

\* "Tests:"
S_Tests_colon ==
  <<"T", "e", "s", "t", "s", ":">>

\* " total"
S_total ==
  <<" ", "t", "o", "t", "a", "l">>

\* ", "
S_comma_sp ==
  <<",", " ">>

\* "tests"
S_tests ==
  <<"t", "e", "s", "t", "s">>

\* "assertions"
S_assertions ==
  <<"a", "s", "s", "e", "r", "t", "i", "o", "n", "s">>

\* "failures"
S_failures ==
  <<"f", "a", "i", "l", "u", "r", "e", "s">>

\* " tests,"
S_tests_comma ==
  <<" ", "t", "e", "s", "t", "s", ",">>

\* "Tests run"
S_Tests_run ==
  <<"T", "e", "s", "t", "s", " ", "r", "u", "n">>

\* "Failures"
S_Failures ==
  <<"F", "a", "i", "l", "u", "r", "e", "s">>

\* "Errors"
S_Errors ==
  <<"E", "r", "r", "o", "r", "s">>

\* "Skipped"
S_Skipped ==
  <<"S", "k", "i", "p", "p", "e", "d">>

\* "Tests run: "
S_Tests_run_re ==
  <<"T", "e", "s", "t", "s", " ", "r", "u", "n", ":", " ">>

\* ","
S_comma ==
  <<",">>

\* "Suite duration: "
S_Suite_duration ==
  <<"S", "u", "i", "t", "e", " ", "d", "u", "r", "a", "t", "i", "o", "n",
    ":", " ">>

\* " Tests: "
S_sp_Tests ==
  <<" ", "T", "e", "s", "t", "s", ":", " ">>

\* "Tests: "
S_Tests_re ==
  <<"T", "e", "s", "t", "s", ":", " ">>

\* "pytest"
S_pytest ==
  <<"p", "y", "t", "e", "s", "t">>

\* "py.test"
S_py_test ==
  <<"p", "y", ".", "t", "e", "s", "t">>

\* "npm"
S_npm ==
  <<"n", "p", "m">>

\* "yarn test"
S_yarn_test ==
  <<"y", "a", "r", "n", " ", "t", "e", "s", "t">>

\* "rake "
S_rake ==
  <<"r", "a", "k", "e", " ">>

\* "validate"
S_validate ==
  <<"v", "a", "l", "i", "d", "a", "t", "e">>

\* "maven"
S_maven ==
  <<"m", "a", "v", "e", "n">>

\* the lines a CI log is made of in this model
\* "collected 12 items"
L_collected_12 ==
  <<"c", "o", "l", "l", "e", "c", "t", "e", "d", " ", "1", "2", " ", "i",
    "t", "e", "m", "s">>

\* "=== RUN TestFoo"
L_run_TestFoo ==
  <<"=", "=", "=", " ", "R", "U", "N", " ", "T", "e", "s", "t", "F", "o",
    "o">>

\* "collected 3 items"
L_collected_3 ==
  <<"c", "o", "l", "l", "e", "c", "t", "e", "d", " ", "3", " ", "i", "t",
    "e", "m", "s">>

\* "https://codecov.io/upload"
L_codecov ==
  <<"h", "t", "t", "p", "s", ":", "/", "/", "c", "o", "d", "e", "c", "o",
    "v", ".", "i", "o", "/", "u", "p", "l", "o", "a", "d">>

\* "=== RUN bonfire deploy-iqe-cji"
L_bonfire ==
  <<"=", "=", "=", " ", "R", "U", "N", " ", "b", "o", "n", "f", "i", "r",
    "e", " ", "d", "e", "p", "l", "o", "y", "-", "i", "q", "e", "-", "c",
    "j", "i">>

\* "=== RUN collected 5 items"
L_run_collected_5 ==
  <<"=", "=", "=", " ", "R", "U", "N", " ", "c", "o", "l", "l", "e", "c",
    "t", "e", "d", " ", "5", " ", "i", "t", "e", "m", "s">>

\* "collected no items Ran 4 tests in 1s"
L_no_items_ran_4 ==
  <<"c", "o", "l", "l", "e", "c", "t", "e", "d", " ", "n", "o", " ", "i",
    "t", "e", "m", "s", " ", "R", "a", "n", " ", "4", " ", "t", "e", "s",
    "t", "s", " ", "i", "n", " ", "1", "s">>

\* "Tests run: 6, Failures: 0, Errors: 0, Skipped: 0"
L_maven_6 ==
  <<"T", "e", "s", "t", "s", " ", "r", "u", "n", ":", " ", "6", ",", " ",
    "F", "a", "i", "l", "u", "r", "e", "s", ":", " ", "0", ",", " ", "E",
    "r", "r", "o", "r", "s", ":", " ", "0", ",", " ", "S", "k", "i", "p",
    "p", "e", "d", ":", " ", "0">>

\* "Suite duration: 1s Tests: 9, 8 total"
L_suite_9_total_8 ==
  <<"S", "u", "i", "t", "e", " ", "d", "u", "r", "a", "t", "i", "o", "n",
    ":", " ", "1", "s", " ", "T", "e", "s", "t", "s", ":", " ", "9", ",",
    " ", "8", " ", "t", "o", "t", "a", "l">>

\* "<ESC>[1mpytest<ESC>[0m 2 tests, 5 assertions, 0 failures"
L_ansi_pytest_rake ==
  <<ESC, "[", "1", "m", "p", "y", "t", "e", "s", "t", ESC, "[", "0", "m",
    " ", "2", " ", "t", "e", "s", "t", "s", ",", " ", "5", " ", "a", "s",
    "s", "e", "r", "t", "i", "o", "n", "s", ",", " ", "0", " ", "f", "a",
    "i", "l", "u", "r", "e", "s">>

\* "Ran tests in Tests: total assertions failures": a line with no number that
\* passes the guards of pyunittest, npm and rake
L_no_number_ran ==
  <<"R", "a", "n", " ", "t", "e", "s", "t", "s", " ", "i", "n", " ", "T",
    "e", "s", "t", "s", ":", " ", "t", "o", "t", "a", "l", " ", "a", "s",
    "s", "e", "r", "t", "i", "o", "n", "s", " ", "f", "a", "i", "l", "u",
    "r", "e", "s">>

\* "Tests run Failures Errors Skipped Suite duration: Tests: ":
\* a line with no number that passes the guards of maven and other
L_no_number_run ==
  <<"T", "e", "s", "t", "s", " ", "r", "u", "n", " ", "F", "a", "i", "l",
    "u", "r", "e", "s", " ", "E", "r", "r", "o", "r", "s", " ", "S", "k",
    "i", "p", "p", "e", "d", " ", "S", "u", "i", "t", "e", " ", "d", "u",
    "r", "a", "t", "i", "o", "n", ":", " ", "T", "e", "s", "t", "s", ":",
    " ">>

LogLines ==
  {L_collected_12,
   L_run_TestFoo,
   L_collected_3,
   L_codecov,
   L_bonfire,
   L_run_collected_5,
   L_no_items_ran_4,
   L_maven_6,
   L_suite_9_total_8,
   L_ansi_pytest_rake,
   L_no_number_ran,
   L_no_number_run}

\* re.search("Tests:.+, ([0-9]+) total", s): the leftmost "Tests:", then
\* the greedy .+ takes the last ", N total" that leaves it a character
SearchNpm(s) ==
  LET tails(i) == {j \in (i + Len(S_Tests_colon) + 1)..Len(s) :
                     NumberAt(S_comma_sp, S_total, s, j)}
      starts == {i \in 1..Len(s) :
                   StartsAt(s, i, S_Tests_colon) /\ tails(i) # {}}
  IN IF starts = {} THEN NoMatch
     ELSE LET a == Greatest(tails(Least(starts))) + Len(S_comma_sp)
          IN [match |-> TRUE, group1 |-> SubSeq(s, a, RunEnd(s, a))]

\* KNOWN_TESTING_TOOLS: line 25
KNOWN_TESTING_TOOLS ==
  {"gotest", "pytest", "pyunittest", "npm", "rake", "maven", "other"}

\* the tools one line gives away: lines 52-65
ToolsFoundIn(line) ==
  {t \in KNOWN_TESTING_TOOLS :
     \/ t = "gotest" /\ Contains(line, S_go_run)
     \/ t = "pytest"
          /\ (Contains(line, S_pytest) \/ Contains(line, S_py_test))
     \/ t = "pyunittest"
          /\ Contains(line, S_Ran) /\ Contains(line, S_tests_in)
     \/ t = "other"
          /\ Contains(line, S_Suite_duration) /\ Contains(line, S_sp_Tests)
     \/ t = "npm" /\ (Contains(line, S_npm) \/ Contains(line, S_yarn_test))
     \/ t = "rake" /\ Contains(line, S_rake) /\ Contains(line, S_validate)
     \/ t = "maven" /\ Contains(line, S_maven)}

\* _get_testing_tools(ci_log): lines 45-78
GetTestingTools(log) ==
  UNION {ToolsFoundIn(CleanLines(log)[i]) : i \in 1..Len(log)}

\* the elements of a list
Range(seq) == {seq[i] : i \in 1..Len(seq)}

\* the tools are detected from the log even when test_tool names some
ToolsDetectedAlways(log, tool) == GetTestingTools(log)

\* tools of lines 92-95: the names of test_tool, else the tools detected
ToolsOf(log, tool) ==
  IF tool # None /\ tool.names # <<>> THEN Range(tool.names)
  ELSE GetTestingTools(log)

\* the line ends the scan: line 101
IsTerminationMarker(line) ==
  Contains(line, S_codecov_upload) \/ Contains(line, S_bonfire_deploy)

\* the order of the rules in the loop body: lines 104-170
RuleOrder ==
  <<"gotest", "pytest", "pyunittest", "npm", "rake", "maven", "other">>

\* the substring test that guards the rule of a tool:
\* lines 105, 111, 122, 133, 144, 153-155, 164
Guard(tool, line) ==
  CASE tool = "gotest" -> Contains(line, S_go_run)
    [] tool = "pytest" ->
         Contains(line, S_collected) /\ Contains(line, S_items)
    [] tool = "pyunittest" ->
         Contains(line, S_Ran) /\ Contains(line, S_tests_in)
    [] tool = "npm" ->
         Contains(line, S_Tests_colon) /\ Contains(line, S_total)
    [] tool = "rake" ->
         /\ Contains(line, S_tests)
         /\ Contains(line, S_assertions)
         /\ Contains(line, S_failures)
    [] tool = "maven" ->
         /\ Contains(line, S_Tests_run)
         /\ Contains(line, S_Failures)
         /\ Contains(line, S_Errors)
         /\ Contains(line, S_Skipped)
    [] tool = "other" ->
         Contains(line, S_Suite_duration) /\ Contains(line, S_sp_Tests)

\* the re.search of the rule of a tool: lines 115, 126, 137, 147, 158, 167
Pattern(tool, line) ==
  CASE tool = "pytest" -> Search(S_collected, S_items, line)
    [] tool = "pyunittest" -> Search(S_Ran, S_tests_in_re, line)
    [] tool = "npm" -> SearchNpm(line)
    [] tool = "rake" -> Search(<<>>, S_tests_comma, line)
    [] tool = "maven" -> Search(S_Tests_run_re, S_comma, line)
    [] tool = "other" -> Search(S_Tests_re, <<>>, line)

\* Added with the except clause adding 1 for a line with no number
AddedCountsUnparsed(tool, line) ==
  IF tool = "gotest" THEN 1
  ELSE IF Pattern(tool, line).match THEN DigitsVal(Pattern(tool, line).group1)
  ELSE 1

\* what the rule of a tool adds to tests_count for a line that passed its
\* guard: 1 for gotest (line 107), else int(group(1)), or nothing when the
\* pattern found no match (AttributeError is caught, lines 117-118)
Added(tool, line) ==
  IF tool = "gotest" THEN 1
  ELSE IF Pattern(tool, line).match THEN DigitsVal(Pattern(tool, line).group1)
  ELSE 0

\* the lines of the model's logs after escape_ansi
CleanLogLines == {EscapeAnsi(l) : l \in LogLines}

\* Guard, Added and IsTerminationMarker of every line of the model's logs,
\* worked out once
LineTable ==
  [l \in CleanLogLines |->
     [marker |-> IsTerminationMarker(l),
      guard |-> [t \in KNOWN_TESTING_TOOLS |-> Guard(t, l)],
      added |-> [t \in KNOWN_TESTING_TOOLS |->
                   IF Guard(t, l) THEN Added(t, l) ELSE 0]]]

\* the rule of a tool never ends the handling of a line
ContinueNever(tool) == FALSE

\* every rule but the one of gotest ends the handling of a line
ContinueButGotest(tool) == tool # "gotest"

\* the rule of a tool ends with `continue`:
\* lines 108, 119, 130, 141, 150, 161, 170
ContinueAfter(tool) == TRUE

\* the loop body from rule k on, for a line that is no termination marker:
\* what it adds to tests_count and the tools whose rule ran
RECURSIVE ApplyRules(_, _, _)
ApplyRules(line, tls, k) ==
  IF k > Len(RuleOrder) THEN [add |-> 0, by |-> {}]
  ELSE IF RuleOrder[k] \in tls /\ LineTable[line].guard[RuleOrder[k]]
    THEN IF ContinueAfter(RuleOrder[k])
           THEN [add |-> LineTable[line].added[RuleOrder[k]],
                 by |-> {RuleOrder[k]}]
           ELSE [add |-> LineTable[line].added[RuleOrder[k]]
                           + ApplyRules(line, tls, k + 1).add,
                 by |-> {RuleOrder[k]} \cup ApplyRules(line, tls, k + 1).by]
  ELSE ApplyRules(line, tls, k + 1)

\* the loop of lines 99-170 never stops at a termination marker
BreakNever(line) == FALSE

\* the loop of lines 99-170 stops at this line: lines 101-102
Breaks(line) == LineTable[line].marker

\* the for loop of lines 99-170 from line i on, with total acc
RECURSIVE ScanFrom(_, _, _, _)
ScanFrom(ls, tls, i, acc) ==
  IF i > Len(ls) \/ Breaks(ls[i]) THEN acc
  ELSE ScanFrom(ls, tls, i + 1, acc + ApplyRules(ls[i], tls, 1).add)

\* _get_tests_count(ci_log, test_tool): lines 80-172
GetTestsCount(log, tool) ==
  ScanFrom(CleanLines(log), ToolsOf(log, tool), 1, 0)

\* the test_tool settings of this model: none, or comma separated names
TestToolChoices ==
  {None} \cup
  {[names |-> n] : n \in {<<"gotest">>, <<"pytest">>, <<"gotest", "pytest">>,
                          <<"pytest", "pyunittest">>,
                          <<"gotest", "pytest", "pyunittest", "npm", "rake",
                            "maven", "other">>}}

\* the logs of at most n lines
LogsUpTo(n) == UNION {[1..k -> LogLines] : k \in 0..n}

\* _get_tests_count is entered: lines 90-99
GetTestsCountEnter ==
  /\ kpc = "enter"
  /\ tests_count' = 0
  /\ tools' = ToolsOf(ci_log, test_tool)
  /\ lines' = CleanLines(ci_log)
  /\ idx' = 1
  /\ kpc' = "for"
  /\ UNCHANGED <<ci_log, test_tool, handled, wf_vars, ut_vars>>

\* one line that is no termination marker goes through the rules:
\* lines 99-170
ScanLine ==
  /\ kpc = "for"
  /\ idx <= Len(lines)
  /\ ~Breaks(lines[idx])
  /\ tests_count' = tests_count + ApplyRules(lines[idx], tools, 1).add
  /\ handled' = Append(handled, ApplyRules(lines[idx], tools, 1).by)
  /\ idx' = idx + 1
  /\ UNCHANGED <<ci_log, test_tool, tools, lines, kpc, wf_vars, ut_vars>>

\* a termination marker ends the loop: lines 101-102, 172
ScanBreak ==
  /\ kpc = "for"
  /\ idx <= Len(lines)
  /\ Breaks(lines[idx])
  /\ kpc' = "done"
  /\ UNCHANGED <<ci_log, test_tool, tools, lines, idx, tests_count, handled,
                 wf_vars, ut_vars>>

\* the lines are used up: lines 99, 172
ScanEnd ==
  /\ kpc = "for"
  /\ idx > Len(lines)
  /\ kpc' = "done"
  /\ UNCHANGED <<ci_log, test_tool, tools, lines, idx, tests_count, handled,
                 wf_vars, ut_vars>>

\* a call _get_tests_count(ci_log, test_tool)
InitCount ==
  /\ ci_log \in LogsUpTo(MaxLines)
  /\ test_tool \in TestToolChoices
  /\ tools = {}
  /\ lines = <<>>
  /\ idx = 0
  /\ tests_count = 0
  /\ handled = <<>>
  /\ kpc = "enter"
  /\ ut_config = EmptyDict
  /\ unit_tests = EmptyDict
  /\ ut_pos = 0
  /\ ut_env = EmptyDict
  /\ ut_raised = "none"
  /\ upc = "idle"
  /\ now = 0
  /\ entry = "_get_tests_count"
  /\ delay = 0
  /\ num_sec = 0
  /\ ignore_falsy = FALSE
  /\ wpc = "idle"
  /\ cpc = "none"
  /\ end_time = 0
  /\ tries = 0
  /\ response = Unbound
  /\ err = Unbound
  /\ wf_return = <<>>
  /\ wf_raised = "none"
  /\ hist = <<>>
  /\ fetched = <<>>
  /\ available = FALSE
  /\ response_json = EmptyDict
  /\ cov_return = Unbound
  /\ cov_raised = "none"
  /\ ci_pattern = None
  /\ ci_download = None
  /\ pattern = Unbound
  /\ string = Unbound
  /\ match = Unbound
  /\ rx_return = Unbound
  /\ rx_raised = "none"
  /\ rpc = "idle"

NextCount ==
  \/ GetTestsCountEnter
  \/ ScanLine
  \/ ScanBreak
  \/ ScanEnd

SpecCount == InitCount /\ [][NextCount]_vars

(***************************************************************************)
(* unit_tests.py: get_num_of_tests of the three collectors and             *)
(* get_unit_tests.                                                         *)
(***************************************************************************)
\* most logs (jobs of a Travis build, files of a GitHub Actions run) of one
\* provider
MaxJobs == 2

\* an int object
PyInt(n) == [int |-> n]

\* the keys of the unit_tests dict, in the order lines 367-397 insert them
KeyOrder == <<"travis", "gh_action", "jenkins">>

\* the logs a provider may hold
ProviderLogs ==
  { <<>>, <<L_collected_12>>, <<L_run_TestFoo, L_codecov, L_collected_3>> }

\* the test_tool settings of a provider
ProviderTestTools == {None, [names |-> <<"pytest">>]}

\* job.get_log() raises TravisCIError
JobLogError == [error |-> "TravisCIError"]

\* what Travis may answer: get_repository raises, no passed build, or the
\* jobs of the latest build, each with its log or with a failing get_log
TravisEnvs ==
  {[kind |-> "repository_error"], [kind |-> "no_builds"]} \cup
  {[kind |-> "jobs", jobs |-> js] :
     js \in UNION {[1..k -> {[log |-> l] : l \in ProviderLogs}
                              \cup {JobLogError}] : k \in 0..MaxJobs}}

\* what GitHub may answer: the runs request fails, the answer has no
\* "workflow_runs", no run is left, the logs request fails, or the log files
GHActionEnvs ==
  {[kind |-> "runs_not_ok"], [kind |-> "no_workflow_runs"],
   [kind |-> "no_runs"], [kind |-> "logs_not_ok"]} \cup
  {[kind |-> "logs", logs |-> ls] :
     ls \in UNION {[1..k -> ProviderLogs] : k \in 0..MaxJobs}}

\* what Jenkins may answer: get_text raises, or the text
JenkinsEnvs ==
  {[kind |-> "text_error"]} \cup
  {[kind |-> "text", text |-> l] : l \in ProviderLogs}

\* a method returned value v
Returns(v) == [raised |-> "none", value |-> v]

\* a method raised exception e
Raises(e) == [raised |-> e]

\* the loop of TravisUnitTests.get_num_of_tests over the generator get_logs
\* from job i on: lines 314-319, 331-335
RECURSIVE TravisJobs(_, _, _)
TravisJobs(jobs, i, tool) ==
  IF i > Len(jobs) THEN Returns(PyInt(0))
  ELSE IF jobs[i] = JobLogError THEN Raises("SitrepsError")
  ELSE IF GetTestsCount(jobs[i].log, tool) > 0
    THEN Returns(PyInt(GetTestsCount(jobs[i].log, tool)))
  ELSE TravisJobs(jobs, i + 1, tool)

\* TravisUnitTests.get_num_of_tests: lines 291-335. get_logs is a generator:
\* calling it (line 324) runs none of its body, so the except of line 326
\* catches nothing and every error of get_logs is raised by the loop of
\* line 331
TravisNumOfTests(env, tool) ==
  IF env.kind \in {"repository_error", "no_builds"}
    THEN Raises("SitrepsError")
    ELSE TravisJobs(env.jobs, 1, tool)

\* the sum of the counts of the logs
RECURSIVE SumCounts(_, _)
SumCounts(logs, tool) ==
  IF logs = <<>> THEN 0
  ELSE GetTestsCount(Head(logs), tool) + SumCounts(Tail(logs), tool)

\* GHActionUnitTests.get_num_of_tests: lines 196-257
GHActionNumOfTests(env, tool) ==
  CASE env.kind = "runs_not_ok" -> Raises("SitrepsError")
    [] env.kind = "no_workflow_runs" -> Raises("TypeError")
    [] env.kind = "no_runs" -> Returns(PyInt(0))
    [] env.kind = "logs_not_ok" -> Raises("SitrepsError")
    [] env.kind = "logs" ->
         IF env.logs = <<>> THEN Returns(PyInt(0))
         ELSE Returns(PyInt(SumCounts(env.logs, tool)))

\* CIUnitTests.get_num_of_tests: lines 349-358
CINumOfTests(env, tool) ==
  IF env.kind = "text_error" THEN Returns(None)
  ELSE Returns(PyInt(GetTestsCount(env.text, tool)))

\* what get_unit_tests stores for a collector that did not escape it:
\* lines 400-404
Stored(outcome) ==
  IF outcome.raised = "none" THEN outcome.value ELSE PyInt(0)

\* the position of a key in the unit_tests dict, 0 when it is not in it
KeyAt(key) ==
  Cardinality({i \in 1..Len(KeyOrder) :
                 KeyOrder[i] \in DOMAIN ut_config
                   /\ \E j \in i..Len(KeyOrder) : KeyOrder[j] = key})
    * (IF key \in DOMAIN ut_config THEN 1 ELSE 0)

\* get_unit_tests is entered and builds the collectors: lines 365-397
GetUnitTestsEnter ==
  /\ upc = "enter"
  /\ unit_tests' = [k \in DOMAIN ut_config |-> [collector |-> k]]
  /\ ut_pos' = 1
  /\ upc' = "for"
  /\ UNCHANGED <<ut_config, ut_env, ut_raised, cnt_vars, wf_vars>>

\* the rest of one turn of the loop of lines 399-404, for the collector
\* `key` whose get_num_of_tests ended with `outcome` in the situation env
StoreOutcome(key, env, outcome) ==
  /\ ut_env' = [ut_env EXCEPT ![key] = env]
  /\ IF outcome.raised \in {"none", "SitrepsError"}
       THEN /\ unit_tests' = [unit_tests EXCEPT ![key] = Stored(outcome)]
            /\ ut_pos' = ut_pos + 1
            /\ UNCHANGED <<ut_raised, upc>>
       ELSE /\ ut_raised' = outcome.raised
            /\ upc' = "raised"
            /\ UNCHANGED <<unit_tests, ut_pos>>

\* the turn of the loop for the Travis collector: lines 399-404, 321-335
CollectTravis ==
  /\ upc = "for"
  /\ "travis" \in DOMAIN ut_config
  /\ ut_pos = KeyAt("travis")
  /\ \E env \in TravisEnvs :
       StoreOutcome("travis", env,
                    TravisNumOfTests(env, ut_config["travis"]))
  /\ UNCHANGED <<ut_config, cnt_vars, wf_vars>>

\* the turn of the loop for the GitHub Actions collector:
\* lines 399-404, 249-257
CollectGHAction ==
  /\ upc = "for"
  /\ "gh_action" \in DOMAIN ut_config
  /\ ut_pos = KeyAt("gh_action")
  /\ \E env \in GHActionEnvs :
       StoreOutcome("gh_action", env,
                    GHActionNumOfTests(env, ut_config["gh_action"]))
  /\ UNCHANGED <<ut_config, cnt_vars, wf_vars>>

\* the turn of the loop for the Jenkins collector: lines 399-404, 349-358
CollectJenkins ==
  /\ upc = "for"
  /\ "jenkins" \in DOMAIN ut_config
  /\ ut_pos = KeyAt("jenkins")
  /\ \E env \in JenkinsEnvs :
       StoreOutcome("jenkins", env,
                    CINumOfTests(env, ut_config["jenkins"]))
  /\ UNCHANGED <<ut_config, cnt_vars, wf_vars>>

\* get_unit_tests returns the dict: line 405
GetUnitTestsReturn ==
  /\ upc = "for"
  /\ ut_pos > Cardinality(DOMAIN ut_config)
  /\ upc' = "done"
  /\ UNCHANGED <<ut_config, unit_tests, ut_pos, ut_env, ut_raised, cnt_vars,
                 wf_vars>>

\* a call get_unit_tests(travis, gh_action, jenkins), each given or not
InitTests ==
  /\ ut_config \in UNION {[ks -> ProviderTestTools] :
                            ks \in SUBSET Range(KeyOrder)}
  /\ unit_tests = EmptyDict
  /\ ut_pos = 0
  /\ ut_env = [k \in Range(KeyOrder) |-> [kind |-> "not asked"]]
  /\ ut_raised = "none"
  /\ upc = "enter"
  /\ ci_log = <<>>
  /\ test_tool = None
  /\ tools = {}
  /\ lines = <<>>
  /\ idx = 0
  /\ tests_count = 0
  /\ handled = <<>>
  /\ kpc = "idle"
  /\ now = 0
  /\ entry = "get_unit_tests"
  /\ delay = 0
  /\ num_sec = 0
  /\ ignore_falsy = FALSE
  /\ wpc = "idle"
  /\ cpc = "none"
  /\ end_time = 0
  /\ tries = 0
  /\ response = Unbound
  /\ err = Unbound
  /\ wf_return = <<>>
  /\ wf_raised = "none"
  /\ hist = <<>>
  /\ fetched = <<>>
  /\ available = FALSE
  /\ response_json = EmptyDict
  /\ cov_return = Unbound
  /\ cov_raised = "none"
  /\ ci_pattern = None
  /\ ci_download = None
  /\ pattern = Unbound
  /\ string = Unbound
  /\ match = Unbound
  /\ rx_return = Unbound
  /\ rx_raised = "none"
  /\ rpc = "idle"

NextTests ==
  \/ GetUnitTestsEnter
  \/ CollectTravis
  \/ CollectGHAction
  \/ CollectJenkins
  \/ GetUnitTestsReturn

SpecTests == InitTests /\ [][NextTests]_vars

(***************************************************************************)
(* code_coverage.py: get_regex_cov, get_htmlcov and CICoverage.            *)
(* A pattern is  pre G suf  where pre and suf are literal characters and G *)
(* is the piece its `grp` names:                                           *)
(*   "digits"      ([0-9]+)      "digits_opt"  ([0-9]+)?                   *)
(*   "decimal"     ([0-9.]+)     "word"        ([a-z]+)                    *)
(*   "no_group"    [0-9]+        "unclosed"    ([0-9]+                     *)
(***************************************************************************)
\* the lower case letters
Lower ==
  {"a", "b", "c", "d", "e", "f", "g", "h", "i", "j", "k", "l", "m", "n",
   "o", "p", "q", "r", "s", "t", "u", "v", "w", "x", "y", "z"}

\* the pieces G that compile
GroupKinds == {"digits", "digits_opt", "decimal", "word", "no_group"}

\* the characters the class of G takes
ClassOf(grp) ==
  CASE grp \in {"digits", "digits_opt", "no_group"} -> Digits
    [] grp = "decimal" -> Digits \cup {"."}
    [] grp = "word" -> Lower

\* the number of capture groups of the pattern
GroupCount(grp) == IF grp = "no_group" THEN 0 ELSE 1

\* the pattern  pre G suf
RePattern(pre, grp, suf) == [pre |-> pre, grp |-> grp, suf |-> suf]

\* where a run of one or more characters of cls that starts at a may end
Runs(s, a, cls) == {e \in a..Len(s) : \A j \in a..e : s[j] \in cls}

\* the match of pattern p that starts at position i of s: the class takes
\* the longest run that the suffix follows; the optional group is left out
\* (its group(1) is None) when no run will do
MatchAt(p, s, i) ==
  LET a == i + Len(p.pre)
      ends == {e \in Runs(s, a, ClassOf(p.grp)) : StartsAt(s, e + 1, p.suf)}
  IN IF ~StartsAt(s, i, p.pre) THEN NoMatch
     ELSE IF ends # {}
       THEN [match |-> TRUE, groups |-> GroupCount(p.grp),
             group1 |-> PyStr(SubSeq(s, a, Greatest(ends)))]
     ELSE IF p.grp = "digits_opt" /\ StartsAt(s, a, p.suf)
       THEN [match |-> TRUE, groups |-> 1, group1 |-> None]
     ELSE NoMatch

\* re.search(pattern, string): re.error for a pattern that does not
\* compile, else None or the leftmost match
ReSearch(p, s) ==
  IF p.grp \notin GroupKinds THEN Raises("re.error")
  ELSE LET starts == {i \in 1..(Len(s) + 1) : MatchAt(p, s, i).match}
       IN IF starts = {} THEN Returns(NoMatch)
          ELSE Returns(MatchAt(p, s, Least(starts)))

\* lines 88-92: float(match.group(1)); IndexError (the pattern has no
\* group 1) and ValueError give None, the TypeError of float(None) is not
\* caught
FloatOfGroup(m) ==
  IF m.groups < 1 THEN Returns(None)
  ELSE IF m.group1 = None THEN Raises("TypeError")
  ELSE IF PyFloat(m.group1).ok THEN Returns(PyFloat(m.group1).val)
  ELSE Returns(None)

\* get_regex_cov(pattern, string): lines 82-92
GetRegexCov(p, s) ==
  IF ReSearch(p, s).raised # "none" THEN ReSearch(p, s)
  ELSE IF ~ReSearch(p, s).value.match THEN Returns(None)
  ELSE FloatOfGroup(ReSearch(p, s).value)

\* the literal pieces of the patterns, as characters
\* "coverage: "
S_coverage ==
  <<"c", "o", "v", "e", "r", "a", "g", "e", ":", " ">>

\* "%"
S_percent ==
  <<"%">>

\* '<span class="pc_cov">'
S_pc_cov_open ==
  <<"<", "s", "p", "a", "n", " ", "c", "l", "a", "s", "s", "=", "\"", "p",
    "c", "_", "c", "o", "v", "\"", ">">>

\* "%</span>"
S_pc_cov_close ==
  <<"%", "<", "/", "s", "p", "a", "n", ">">>

\* the pattern of get_htmlcov: line 97
HtmlcovPattern == RePattern(S_pc_cov_open, "digits", S_pc_cov_close)

\* the patterns a caller may give CICoverage
Patterns ==
  {RePattern(pre, grp, S_percent) :
     pre \in {S_coverage, <<>>}, grp \in GroupKinds \cup {"unclosed"}}

\* the texts a CI may serve
\* "coverage: 87%"
T_coverage_87 ==
  <<"c", "o", "v", "e", "r", "a", "g", "e", ":", " ", "8", "7", "%">>

\* "coverage: 92.5%"
T_coverage_92_5 ==
  <<"c", "o", "v", "e", "r", "a", "g", "e", ":", " ", "9", "2", ".", "5",
    "%">>

\* "coverage: %"
T_coverage_blank ==
  <<"c", "o", "v", "e", "r", "a", "g", "e", ":", " ", "%">>

\* "coverage: high%"
T_coverage_high ==
  <<"c", "o", "v", "e", "r", "a", "g", "e", ":", " ", "h", "i", "g", "h",
    "%">>

\* "coverage: 1.2.3%"
T_coverage_1_2_3 ==
  <<"c", "o", "v", "e", "r", "a", "g", "e", ":", " ", "1", ".", "2", ".",
    "3", "%">>

\* '<span class="pc_cov">87%</span>'
T_htmlcov_87 ==
  <<"<", "s", "p", "a", "n", " ", "c", "l", "a", "s", "s", "=", "\"", "p",
    "c", "_", "c", "o", "v", "\"", ">", "8", "7", "%", "<", "/", "s", "p",
    "a", "n", ">">>

\* '<span class="pc_cov">-%</span>'
T_htmlcov_dash ==
  <<"<", "s", "p", "a", "n", " ", "c", "l", "a", "s", "s", "=", "\"", "p",
    "c", "_", "c", "o", "v", "\"", ">", "-", "%", "<", "/", "s", "p", "a",
    "n", ">">>

\* ""
T_empty ==
  <<>>

Texts ==
  {T_coverage_87,
   T_coverage_92_5,
   T_coverage_blank,
   T_coverage_high,
   T_coverage_1_2_3,
   T_htmlcov_87,
   T_htmlcov_dash,
   T_empty}

\* what self.ci_downloader.get_text(self.url) may do: return a text, or
\* raise SitrepsError
Downloads == {Returns(PyStr(t)) : t \in Texts} \cup {Raises("SitrepsError")}

\* `not self.pattern` of line 124
NoPattern(p) == p = None

\* CICoverage.get_coverage fetches the text and calls get_htmlcov or
\* get_regex_cov: lines 116-126, 97
GetText ==
  /\ rpc = "get_text"
  /\ IF ci_download.raised # "none"
       THEN /\ rx_raised' = "CodeCoverageError"
            /\ rpc' = "done"
            /\ UNCHANGED <<pattern, string>>
       ELSE /\ string' = ci_download.value
            /\ pattern' = IF NoPattern(ci_pattern) THEN HtmlcovPattern
                           ELSE ci_pattern
            /\ rpc' = "search"
            /\ rx_raised' = rx_raised
  /\ UNCHANGED <<ci_pattern, ci_download, match, rx_return>>
  /\ UNCHANGED <<now, entry, wf_args, wpc, wf_frame, cpc, fetched, available,
                 response_json, cov_return, cov_raised, unit_test_vars>>

\* match = re.search(pattern, string), and the return of None when there is
\* no match: lines 84-86
SearchPattern ==
  /\ rpc = "search"
  /\ LET found == ReSearch(pattern, string.str)
     IN IF found.raised # "none"
          THEN /\ rx_raised' = found.raised
               /\ rpc' = "done"
               /\ UNCHANGED <<match, rx_return>>
        ELSE IF ~found.value.match
          THEN /\ match' = None
               /\ rx_return' = None
               /\ rpc' = "done"
               /\ rx_raised' = rx_raised
        ELSE /\ match' = found.value
             /\ rpc' = "group"
             /\ UNCHANGED <<rx_return, rx_raised>>
  /\ UNCHANGED <<ci_pattern, ci_download, pattern, string>>
  /\ UNCHANGED <<now, entry, wf_args, wpc, wf_frame, cpc, fetched, available,
                 response_json, cov_return, cov_raised, unit_test_vars>>

\* return float(match.group(1)), or None from the except clause:
\* lines 88-92
ReturnFloat ==
  /\ rpc = "group"
  /\ IF FloatOfGroup(match).raised # "none"
       THEN /\ rx_raised' = FloatOfGroup(match).raised
            /\ rx_return' = rx_return
       ELSE /\ rx_return' = FloatOfGroup(match).value
            /\ rx_raised' = rx_raised
  /\ rpc' = "done"
  /\ UNCHANGED <<ci_pattern, ci_download, pattern, string, match>>
  /\ UNCHANGED <<now, entry, wf_args, wpc, wf_frame, cpc, fetched, available,
                 response_json, cov_return, cov_raised, unit_test_vars>>

\* a call CICoverage(url, ci_downloader, pattern).get_coverage()
InitRegex ==
  /\ ci_pattern \in Patterns \cup {None}
  /\ ci_download \in Downloads
  /\ pattern = Unbound
  /\ string = Unbound
  /\ match = Unbound
  /\ rx_return = Unbound
  /\ rx_raised = "none"
  /\ rpc = "get_text"
  /\ now = 0
  /\ entry = "CICoverage.get_coverage"
  /\ delay = 0
  /\ num_sec = 0
  /\ ignore_falsy = FALSE
  /\ wpc = "idle"
  /\ cpc = "none"
  /\ end_time = 0
  /\ tries = 0
  /\ response = Unbound
  /\ err = Unbound
  /\ wf_return = <<>>
  /\ wf_raised = "none"
  /\ hist = <<>>
  /\ fetched = <<>>
  /\ available = FALSE
  /\ response_json = EmptyDict
  /\ cov_return = Unbound
  /\ cov_raised = "none"
  /\ ci_log = <<>>
  /\ test_tool = None
  /\ tools = {}
  /\ lines = <<>>
  /\ idx = 0
  /\ tests_count = 0
  /\ handled = <<>>
  /\ kpc = "idle"
  /\ ut_config = EmptyDict
  /\ unit_tests = EmptyDict
  /\ ut_pos = 0
  /\ ut_env = EmptyDict
  /\ ut_raised = "none"
  /\ upc = "idle"

NextRegex ==
  \/ GetText
  \/ SearchPattern
  \/ ReturnFloat

SpecRegex == InitRegex /\ [][NextRegex]_vars

(***************************************************************************)
(* Properties of wait_for and of the coverage pipeline.                    *)
(***************************************************************************)
\* invocation i of func raised
Raised(i) == hist[i].kind = "raise"

\* invocation i of func returned a value
Returned(i) == hist[i].kind = "return"

\* the time between the end of invocation i and the start of the next
Gap(i) == hist[i + 1].start - hist[i].stop

\* C1: whenever an invocation of the operation raised, at least `delay`
\* passes before the next invocation starts.
C1_DelayAfterRaise ==
  \A i \in 1..(Len(hist) - 1) : Raised(i) => Gap(i) >= delay

\* C2: wait_for never raises, whatever delay and timeout (a timeout of 0 or
\* less included); when it is done it has returned the result and the error
\* of the last attempt (both None when there was no attempt) and the number
\* of attempts, which is the number of invocations of the operation.
C2_NeverRaises ==
  wpc = "done" =>
    /\ wf_raised = "none"
    /\ wf_return # <<>>
    /\ wf_return[3] = Len(hist)
    /\ IF hist = <<>>
         THEN wf_return[1] = None /\ wf_return[2] = None
       ELSE IF Raised(Len(hist))
         THEN wf_return[1] = None /\ wf_return[2] = hist[Len(hist)].val
       ELSE wf_return[1] = hist[Len(hist)].val /\ wf_return[2] = None

\* the operation raised on its first two invocations and returned a truthy
\* value on the third, with ignore_falsy unset
FailedTwiceThenTruthy ==
  /\ ~ignore_falsy
  /\ Len(hist) >= 3
  /\ Raised(1)
  /\ Raised(2)
  /\ Returned(3)
  /\ Truthy(hist[3].val)

\* C3: with ignore_falsy unset, an operation that raises twice and then
\* returns a truthy value is invoked exactly 3 times, and wait_for returns
\* that value, no error and the attempt count 3.
C3_ThirdAttemptReturned ==
  FailedTwiceThenTruthy =>
    /\ Len(hist) = 3
    /\ wpc = "done"
    /\ wf_raised = "none"
    /\ wf_return = <<hist[3].val, None, 3>>

C3_Witness == FailedTwiceThenTruthy /\ wpc = "done"

\* is_available has its wait_for call behind it
ProbeDone == cpc = "probing" /\ wpc = "done"

\* with ignore_falsy set the first result returned is accepted at once, and
\* no invocation follows it
FirstResultAccepted ==
  ignore_falsy =>
    \A i \in 1..Len(hist) :
      Returned(i) =>
        /\ i = Len(hist)
        /\ wpc = "done"
        /\ wf_return = <<hist[i].val, None, i>>

\* with ignore_falsy unset a falsy result is returned only once the time is
\* up, and `delay` passes after each falsy result before the next invocation
FalsyResultWaits ==
  ~ignore_falsy =>
    /\ (wf_return # <<>> /\ ~Truthy(wf_return[1])) => now >= end_time
    /\ \A i \in 1..(Len(hist) - 1) :
         (Returned(i) /\ ~Truthy(hist[i].val)) => Gap(i) >= delay

\* C4, as claimed: the first result is accepted at once under ignore_falsy,
\* so the availability probe fetches the badge exactly once; without
\* ignore_falsy a falsy result waits for the timeout and `delay` follows it.
C4_BadgeFetchedOnce ==
  /\ FirstResultAccepted
  /\ ProbeDone => Len(hist) = 1
  /\ FalsyResultWaits

\* C4, amended: under ignore_falsy the first result returned is accepted at
\* once, so the badge fetch of the probe returns at most once and is the
\* only fetch when the first fetch returns (fetches that raise are retried
\* until the 3 seconds are over); without ignore_falsy as claimed.
C4_FirstResultEndsProbe ==
  /\ FirstResultAccepted
  /\ ProbeDone =>
       /\ Cardinality({i \in 1..Len(hist) : Returned(i)}) <= 1
       /\ \A i \in 1..(Len(hist) - 1) : Raised(i)
       /\ (Len(hist) >= 1 /\ Returned(1)) => Len(hist) = 1
  /\ FalsyResultWaits

C4_Witness ==
  /\ ProbeDone
  /\ Len(hist) = 1
  /\ Returned(1)
  /\ ~Truthy(hist[1].val)
  /\ wf_return[1] = hist[1].val

\* get_coverage fetched a response and read its JSON (lines 66-76)
JsonRead ==
  /\ cpc = "done"
  /\ available
  /\ wf_raised = "none"
  /\ fetched[2] = None
  /\ Truthy(fetched[1])

\* the float 92.5
F92_5 == [mant |-> 925, scale |-> 1]

\* C10: for a fetched JSON response get_coverage returns the number the
\* coverage string spells when it parses ("92.5" gives 92.5), None for the
\* empty JSON object, and None, without raising, when the coverage string
\* is malformed.
C10_MalformedIsAbsent ==
  JsonRead =>
    LET str == CoverageRatioStr(response_json)
    IN /\ cov_raised = "none"
       /\ DOMAIN response_json = {} => cov_return = None
       /\ (str # None /\ PyFloat(str).ok) => cov_return = PyFloat(str).val
       /\ (str # None /\ ~PyFloat(str).ok) => cov_return = None
       /\ str = PyStr(<<"9", "2", ".", "5">>) => cov_return = F92_5

\* C12: is_available never raises; it returns FALSE whenever the badge fetch
\* ended with an error or with a falsy response, and otherwise returns TRUE
\* exactly when the fetched badge body does not hold the "unknown" marker.
C12_ProbeResult ==
  [][ProbeDone =>
       /\ wf_raised = "none"
       /\ Len(hist) >= 1
       /\ LET last == hist[Len(hist)]
              body == last.kind = "return" /\ Truthy(last.val)
          IN /\ cov_raised' = "none"
             /\ ~body => (~available' /\ cov_return' = None /\ cpc' = "done")
             /\ body => available' = ~last.val.unknown]_vars

C12_Witness ==
  /\ cpc = "done"
  /\ ~available
  /\ fetched # <<>>
  /\ fetched[2] \in Errors
  /\ cov_return = None

\* the fetch of get_coverage failed: wait_for left an error, or a response
\* that is falsy (not ok) when the time was up
CoverageFetchFailed == fetched[2] # None \/ ~Truthy(fetched[1])

\* C13: get_coverage is called only after is_available returned TRUE; when
\* is_available returned FALSE, or the JSON holds no coverage string,
\* get_code_coverage returns None and raises nothing; every failed fetch
\* of get_coverage ends in CodeCoverageError and in no return value.
C13_Pipeline ==
  /\ cpc \in {"available", "fetching"} => available
  /\ (cpc = "fetching" \/ response_json # EmptyDict) => available
  /\ (cpc = "done" /\ ~available) =>
       (cov_return = None /\ cov_raised = "none")
  /\ (cpc = "done" /\ available) =>
       IF CoverageFetchFailed
         THEN cov_raised = "CodeCoverageError" /\ cov_return = Unbound
       ELSE CoverageRatioStr(response_json) = None =>
              (cov_return = None /\ cov_raised = "none")

C13_Witness ==
  /\ cpc = "done"
  /\ available
  /\ fetched[2] = None
  /\ ~Truthy(fetched[1])
  /\ cov_raised = "CodeCoverageError"

\* the "c" of the "totals" of the "commit" object, None if there is none
SingularC(json) ==
  IF "commit" \in DOMAIN json /\ "totals" \in DOMAIN json.commit
       /\ "c" \in DOMAIN json.commit.totals
    THEN json.commit.totals.c
  ELSE None

\* the "c" of the "totals" of the first of the "commits", None if there is
\* none
PluralC(json) ==
  IF "commits" \in DOMAIN json /\ json.commits # <<>>
       /\ "totals" \in DOMAIN json.commits[1]
       /\ "c" \in DOMAIN json.commits[1].totals
    THEN json.commits[1].totals.c
  ELSE None

\* C14: the coverage string is commit.totals.c when that is there, else
\* totals.c of the first of the commits, and get_coverage returns None only
\* when neither is there.
C14_FallbackToCommits ==
  JsonRead =>
    LET str == IF SingularC(response_json) # None
                 THEN SingularC(response_json)
               ELSE PluralC(response_json)
    IN /\ cov_raised = CoverageRatio(str).raised
       /\ cov_return = CoverageRatio(str).value
       /\ (cov_raised = "none" /\ cov_return = None) => str = None

(***************************************************************************)
(* Properties of _get_tests_count.                                         *)
(***************************************************************************)
\* the termination markers of a log
Markers(ls) == {i \in 1..Len(ls) : LineTable[ls[i]].marker}

\* the lines before the first termination marker
BeforeMarker(ls) ==
  IF Markers(ls) = {} THEN ls ELSE SubSeq(ls, 1, Least(Markers(ls)) - 1)

\* the tools of tls whose substring guard the line passes
Matching(line, tls) == {t \in tls : LineTable[line].guard[t]}

\* C5: the lines after a termination marker never affect the total and the
\* marker line adds nothing: for the tools in use, the count of the log is
\* the count of the log cut after the marker, and of the log cut before it.
C5_AfterMarkerIgnored ==
  kpc = "done" =>
    \A i \in Markers(lines) :
      /\ tests_count = ScanFrom(SubSeq(lines, 1, i), tools, 1, 0)
      /\ tests_count = ScanFrom(SubSeq(lines, 1, i - 1), tools, 1, 0)

C5_Witness ==
  /\ kpc = "done"
  /\ tests_count > 0
  /\ \E i \in Markers(lines) :
       /\ i < Len(lines)
       /\ ApplyRules(lines[i], tools, 1).add > 0
       /\ ApplyRules(lines[i + 1], tools, 1).add > 0

\* C6, as claimed: the total over the tools in use is the sum of what each
\* part of them would count alone.
C6_SumOverTools ==
  kpc = "done" =>
    \A T1 \in SUBSET tools :
      tests_count = ScanFrom(lines, T1, 1, 0)
                      + ScanFrom(lines, tools \ T1, 1, 0)

\* what a line adds when only the first rule, in the order of the code,
\* whose guard it passes counts
FirstAdded(line, tls) ==
  LET ks == {k \in 1..Len(RuleOrder) : RuleOrder[k] \in Matching(line, tls)}
  IN IF ks = {} THEN 0 ELSE LineTable[line].added[RuleOrder[Least(ks)]]

\* the sum of FirstAdded over the lines ls
RECURSIVE SumFirstAdded(_, _)
SumFirstAdded(ls, tls) ==
  IF ls = <<>> THEN 0
  ELSE FirstAdded(Head(ls), tls) + SumFirstAdded(Tail(ls), tls)

\* some line before the marker passes a guard of T1 and a guard of T2
SharedLine(ls, T1, T2) ==
  \E i \in 1..Len(BeforeMarker(ls)) :
    Matching(ls[i], T1) # {} /\ Matching(ls[i], T2) # {}

\* C6, amended: a line that passes the guards of several tools in use counts
\* for the first of them alone (order gotest, pytest, pyunittest, npm, rake,
\* maven, other), so the total over T1 and T2 is at most the sum of their
\* counts, and is that sum when no line passes a guard of both.
C6_FirstToolCounts ==
  kpc = "done" =>
    /\ tests_count = SumFirstAdded(BeforeMarker(lines), tools)
    /\ \A T1 \in SUBSET tools :
         LET T2 == tools \ T1
             sum == ScanFrom(lines, T1, 1, 0) + ScanFrom(lines, T2, 1, 0)
         IN /\ tests_count <= sum
            /\ ~SharedLine(lines, T1, T2) => tests_count = sum

C6_Witness ==
  /\ kpc = "done"
  /\ \E i \in 1..Len(BeforeMarker(lines)) :
       /\ Cardinality(Matching(lines[i], tools)) >= 2
       /\ \A t \in Matching(lines[i], tools) : Added(t, lines[i]) > 0

\* C7: every scanned line is handled by the rule of at most one tool,
\* whether or not that rule extracted a number.
C7_OneToolPerLine ==
  \A i \in 1..Len(handled) : Cardinality(handled[i]) <= 1

C7_Witness ==
  \E i \in 1..Len(handled) :
    /\ Cardinality(Matching(lines[i], tools)) >= 2
    /\ \E t \in handled[i] : t # "gotest" /\ ~Pattern(t, lines[i]).match
    /\ Cardinality(handled[i]) = 1

\* the number of a "collected N items" line, 0 for any other line
CollectedItems(line) ==
  IF Search(S_collected, S_items, line).match
    THEN DigitsVal(Search(S_collected, S_items, line).group1)
    ELSE 0

\* the sum of CollectedItems over the lines ls
RECURSIVE SumCollected(_)
SumCollected(ls) ==
  IF ls = <<>> THEN 0 ELSE CollectedItems(Head(ls)) + SumCollected(Tail(ls))

\* the log of the example
ExampleLog == <<L_collected_12, L_run_TestFoo, L_collected_3>>

\* C8: named tools bypass detection and only their rules are applied; for
\* gotest the count is the number of lines with a run marker before any
\* termination marker, for pytest the sum of N over the "collected N items"
\* lines; the example log gives 15 for pytest, 1 for gotest, 16 for both.
C8_ExplicitTools ==
  (kpc = "done" /\ test_tool # None) =>
    /\ tools = Range(test_tool.names)
    /\ \A i \in 1..Len(handled) : handled[i] \subseteq Range(test_tool.names)
    /\ test_tool.names = <<"gotest">> =>
         tests_count =
           Cardinality({i \in 1..Len(BeforeMarker(lines)) :
                          Contains(lines[i], S_go_run)})
    /\ test_tool.names = <<"pytest">> =>
         tests_count = SumCollected(BeforeMarker(lines))
    /\ ci_log = ExampleLog =>
         /\ test_tool.names = <<"pytest">> => tests_count = 15
         /\ test_tool.names = <<"gotest">> => tests_count = 1
         /\ test_tool.names = <<"gotest", "pytest">> => tests_count = 16

C8_Witness ==
  /\ kpc = "done"
  /\ ci_log = ExampleLog
  /\ test_tool = [names |-> <<"pytest">>]
  /\ tests_count = 15
  /\ GetTestingTools(ci_log) # {"pytest"}

\* for every line of the model's logs, the tools whose guard the line passes
\* and whose pattern extracts no number from it, worked out once
Unparsed ==
  [l \in CleanLogLines |->
     {t \in KNOWN_TESTING_TOOLS \ {"gotest"} :
        Guard(t, l) /\ ~Pattern(t, l).match}]

\* the list ls without its element i
Remove(ls, i) == SubSeq(ls, 1, i - 1) \o SubSeq(ls, i + 1, Len(ls))

\* the lines the loop has been through
Scanned == SubSeq(lines, 1, Len(handled))

\* line i went to the rule of a tool whose pattern extracted no number
SkippedLine(i) == handled[i] \cap Unparsed[lines[i]] # {}

\* C15: a line that passes the guard of a tool but gives its pattern no
\* number is skipped: the running total is the one before the line, the
\* scan goes on, and the total, at every point of the scan and at its end,
\* is the count of the log without that line; so it is for the rule of
\* every tool of the table.
C15_UnparsedLineSkipped ==
  /\ tests_count = ScanFrom(Scanned, tools, 1, 0)
  /\ \A i \in 1..Len(handled) :
       SkippedLine(i) =>
         /\ ScanFrom(SubSeq(lines, 1, i), tools, 1, 0)
              = ScanFrom(SubSeq(lines, 1, i - 1), tools, 1, 0)
         /\ tests_count = ScanFrom(Remove(Scanned, i), tools, 1, 0)
         /\ kpc = "done" =>
              tests_count = ScanFrom(Remove(lines, i), tools, 1, 0)
  /\ kpc = "done" =>
       \A t \in KNOWN_TESTING_TOOLS :
         \A i \in 1..Len(BeforeMarker(lines)) :
           t \in Unparsed[lines[i]] =>
             ScanFrom(lines, {t}, 1, 0) = ScanFrom(Remove(lines, i), {t}, 1, 0)

C15_Witness ==
  /\ kpc = "done"
  /\ tests_count > 0
  /\ \E i \in 1..(Len(handled) - 1) :
       /\ SkippedLine(i)
       /\ ApplyRules(lines[i + 1], tools, 1).add > 0

(***************************************************************************)
(* Properties of get_unit_tests.                                           *)
(***************************************************************************)
\* the fetch of the logs of a provider failed
LogFetchFailed(key) ==
  ut_env[key].kind \in {"repository_error", "runs_not_ok", "logs_not_ok",
                        "text_error"}
    \/ /\ ut_env[key].kind = "jobs"
       /\ \E i \in 1..Len(ut_env[key].jobs) : ut_env[key].jobs[i] = JobLogError

\* logs of a provider were fetched
LogsFetched(key) ==
  \/ ut_env[key].kind = "text"
  \/ ut_env[key].kind = "logs" /\ ut_env[key].logs # <<>>
  \/ ut_env[key].kind = "jobs" /\ ut_env[key].jobs # <<>>
       /\ \A i \in 1..Len(ut_env[key].jobs) : ut_env[key].jobs[i] # JobLogError

\* C9: when the fetch of the logs fails, the count get_unit_tests reports
\* for the provider is None and never 0; 0 is reported only when logs were
\* fetched and no test was counted in them.
C9_FailedFetchIsAbsent ==
  upc = "done" =>
    \A key \in DOMAIN unit_tests :
      /\ LogFetchFailed(key) => unit_tests[key] = None
      /\ unit_tests[key] = PyInt(0) => LogsFetched(key)

(***************************************************************************)
(* Properties of get_regex_cov.                                            *)
(***************************************************************************)
\* CICoverage.get_coverage fetched the text, and its call of get_regex_cov
\* is over
RegexCovDone == rpc = "done" /\ string # Unbound

\* re.search found a match whose group 1 took part in it and spells a number
GroupParses ==
  /\ match \notin {Unbound, None}
  /\ match.groups >= 1
  /\ match.group1 # None
  /\ PyFloat(match.group1).ok

\* C11: get_regex_cov never raises, whatever the text and the pattern: it
\* returns the float that group 1 of the match spells when there is a match
\* and the group parses, and None in every other case (no match, no capture
\* group, a group that took no part in the match, a group that is no number).
C11_RegexCovNeverRaises ==
  RegexCovDone =>
    /\ rx_raised = "none"
    /\ IF GroupParses THEN rx_return = PyFloat(match.group1).val
       ELSE rx_return = None

====
